---- MODULE Spec2Model ----
(***************************************************************************)
(* Quiz session of frontend/src/pages/GenerateExam.jsx: the React state of *)
(* the GenerateExam component, its two effects (the one-second timer and   *)
(* the time-up detection), its event handlers and the scoring arithmetic.  *)
(*                                                                         *)
(* React semantics kept by the model:                                      *)
(*  - the hook state (quizData, userAnswers, score, timeLeft, isActive,    *)
(*    showSuccessModal, loading) holds the value after every update issued *)
(*    so far; `rendered` is the snapshot of the last committed render, the *)
(*    values every handler and effect closure reads;                       *)
(*  - an update issued by a click is rendered in the same event-loop turn  *)
(*    (syncRender); an update issued by a timer callback, a promise        *)
(*    continuation or an effect is rendered in a later turn;               *)
(*  - passive effects whose dependencies changed in a commit run after it  *)
(*    (the runtime picks when) and always before the next render.          *)
(***************************************************************************)
EXTENDS Integers, Sequences, FiniteSets, TLC

(* ---------------------------- bounds ----------------------------------- *)
\* largest question count of a generated quiz in the session machine
MaxQuestions == 2
\* most timer callbacks delivered between two commits
MaxLag == 2
\* largest question count drawn for the scoring arithmetic (ScoreSpec)
MaxScoreQuestions == 40
\* most blanks put before, and after, a string of the comparison inputs (MatchSpec)
MaxPad == 1

(* ---------------------------- JS values -------------------------------- *)
\* strings are sequences of one-character strings; `undefined` is a value
\* no string equals
undefined == <<"undefined">>
null == [null |-> TRUE]
NaN == [nan |-> TRUE]
Num(n) == [num |-> n]

IsSpace(ch) == ch = " "

\* String.prototype.trim behind optional chaining: x?.trim()
RECURSIVE TrimLeft(_)
TrimLeft(s) ==
    IF s # <<>> /\ IsSpace(Head(s)) THEN TrimLeft(Tail(s)) ELSE s

RECURSIVE TrimRight(_)
TrimRight(s) ==
    IF s # <<>> /\ IsSpace(s[Len(s)]) THEN TrimRight(SubSeq(s, 1, Len(s) - 1)) ELSE s

\* a trim that removes nothing
trimNothing(s) == s

trim(s) == IF s = undefined THEN undefined ELSE TrimRight(TrimLeft(s))

(* ----------------------- IEEE-754 double arithmetic -------------------- *)
\* A positive double is [hi, mid, lo, exp]: its 53-bit significand is
\* hi * Limb^2 + mid * Limb + lo with 2^16 <= hi < 2^17, and its leading bit
\* has weight 2^exp.  Every intermediate value stays below 2^31.
RECURSIVE Pow2(_)
Pow2(pk) == IF pk = 0 THEN 1 ELSE 2 * Pow2(pk - 1)

LimbBits == 18
Limb == Pow2(LimbBits)
\* 52 fraction bits = HiBits + 2 * LimbBits
HiBits == 16

\* significand + 1, renormalised when it reaches 2^53
IncDouble(id) ==
    IF id.lo + 1 < Limb THEN [id EXCEPT !.lo = id.lo + 1]
    ELSE IF id.mid + 1 < Limb THEN [id EXCEPT !.lo = 0, !.mid = id.mid + 1]
    ELSE IF id.hi + 1 < 2 * Pow2(HiBits) THEN [id EXCEPT !.lo = 0, !.mid = 0, !.hi = id.hi + 1]
    ELSE [hi |-> Pow2(HiBits), mid |-> 0, lo |-> 0, exp |-> id.exp + 1]

\* round-to-nearest, ties-to-even, of a truncated significand rd whose first
\* dropped bit is rguard and whose further dropped bits are nonzero iff rsticky
RoundToDouble(rd, rguard, rsticky) ==
    IF rguard = 1 /\ (rsticky \/ rd.lo % 2 = 1) THEN IncDouble(rd) ELSE rd

\* least shift s with lc * 2^s >= ln
RECURSIVE LeadShift(_, _)
LeadShift(lc, ln) == IF lc >= ln THEN 0 ELSE 1 + LeadShift(2 * lc, ln)

\* the double dc / dn for integers 0 < dc < dn < 2^12: long division, the
\* quotient taken HiBits, LimbBits, LimbBits and one (guard) bit at a time
DivDouble(dc, dn) ==
    LET ds == LeadShift(dc, dn)
        r0 == dc * Pow2(ds) - dn
        q1 == (r0 * Pow2(HiBits)) \div dn
        r1 == (r0 * Pow2(HiBits)) % dn
        q2 == (r1 * Limb) \div dn
        r2 == (r1 * Limb) % dn
        q3 == (r2 * Limb) \div dn
        r3 == (r2 * Limb) % dn
        dg == (2 * r3) \div dn
        r4 == (2 * r3) % dn
    IN  RoundToDouble([hi |-> Pow2(HiBits) + q1, mid |-> q2, lo |-> q3, exp |-> 0 - ds],
                      dg, r4 # 0)

\* the double td * 100: the exact product, limb by limb, then rounded to 53 bits
Times100(td) ==
    LET p0 == td.lo * 100
        p1 == td.mid * 100 + (p0 \div Limb)
        p2 == td.hi * 100 + (p1 \div Limb)
        P0 == p0 % Limb
        P1 == p1 % Limb
        \* the product has 59 or 60 bits: drop the low 6 or 7
        drop == IF p2 >= Pow2(HiBits + 7) THEN 7 ELSE 6
        cut  == Pow2(drop)
        up   == Pow2(LimbBits - drop)
    IN  RoundToDouble([hi  |-> p2 \div cut,
                       mid |-> (P1 \div cut) + (p2 % cut) * up,
                       lo  |-> (P0 \div cut) + (P1 % cut) * up,
                       exp |-> td.exp + drop],
                      (P0 \div (cut \div 2)) % 2, P0 % (cut \div 2) # 0)

\* Math.round of a double in (0, 128): the nearest integer, a tie going up;
\* the integer part and the bit of weight 1/2 both lie in the hi limb
MathRoundDouble(md) ==
    LET mk == HiBits - md.exp
    IN  IF mk > HiBits + 1 THEN 0
        ELSE (md.hi \div Pow2(mk)) + ((md.hi \div Pow2(mk - 1)) % 2)

\* Math.round((correctCount / length) * 100)
finalScoreOf(correctCount, length) ==
    IF length = 0 THEN NaN
    ELSE IF correctCount = 0 THEN Num(0)
    ELSE IF correctCount = length THEN Num(100)
    ELSE Num(MathRoundDouble(Times100(DivDouble(correctCount, length))))

(* ------------------------------ scoring -------------------------------- *)
\* userAnswers[q.id] : a missing key reads as undefined
answerOf(ua, id) == IF id \in DOMAIN ua THEN ua[id] ELSE undefined

\* a test that counts every answered question
isCorrectWhenAnswered(ua, q) == q.id \in DOMAIN ua

\* the test of the forEach body: userAnswers[q.id]?.trim() === q.answer?.trim()
isCorrect(ua, q) == trim(answerOf(ua, q.id)) = trim(q.answer)

\* correctCount after quizData.questions.forEach(...)
correctCountOf(qd, ua) ==
    Cardinality({qi \in 1..Len(qd.questions) : isCorrect(ua, qd.questions[qi])})

\* finalScoreOf, evaluated once for every length and count a quiz here can have
finalScores ==
    [fl \in 0..(IF MaxQuestions > MaxScoreQuestions THEN MaxQuestions ELSE MaxScoreQuestions) |->
        [fc \in 0..fl |-> finalScoreOf(fc, fl)]]

\* const finalScore = Math.round((correctCount / quizData.questions.length) * 100)
finalScore(qd, ua) == finalScores[Len(qd.questions)][correctCountOf(qd, ua)]

\* the pass mark of `finalScore >= 50`
PassMark == 50

\* a pass mark that the score must exceed
passesAbove(fs) == fs # NaN /\ fs.num > PassMark

\* finalScore >= 50 (false for NaN)
passes(fs) == fs # NaN /\ fs.num >= PassMark

(* --------------------------- generated quizzes ------------------------- *)
\* question gi of a generated quiz: two options, the correct one alternating;
\* the even questions carry their answer with a leading blank
Question(gi) ==
    [id      |-> gi,
     options |-> << <<"A">>, <<"B">> >>,
     answer  |-> IF gi % 2 = 1 THEN <<"A">> ELSE <<" ", "B">>]

\* parsedQuestions of a response with gn questions
Quiz(gn) == [questions |-> [gi \in 1..gn |-> Question(gi)]]

SecondsPerQuestion == 60

(* ------------------------------- state --------------------------------- *)
VARIABLES
    quizData,          \* useState(null)
    userAnswers,       \* useState({})
    score,             \* useState(null)
    timeLeft,          \* useState(0)
    isActive,          \* useState(false)
    showSuccessModal,  \* useState(false)
    loading,           \* useState(false)
    rendered,          \* hook values of the last committed render (closures)
    answersFresh,      \* setUserAnswers made a new object since the last commit
    pendingEffects,    \* effects of the last commit that have not run yet
    interval,          \* the setInterval of the timer effect is live
    lag,               \* timer callbacks delivered since the last commit
    gen,               \* handleGenerate: "idle" or "awaiting" the response
    finalizers,        \* who called setScore(finalScore) since score was last reset, in order
    confetti           \* triggerConfetti() calls since score was last reset

\* the rest of the application: browser storage, services/api.js
VARIABLES
    localStorage,      \* the items 'token' and 'user_data', null when not stored
    pathname,          \* window.location.pathname
    failed,            \* the error axios made of the last failed request
    rejection          \* what the promise of that request was rejected with

\* context/AuthContext.jsx
VARIABLES
    user,              \* useState(null)
    token,             \* useState(null)
    authLoading,       \* useState(true), the provider's `loading`
    mounted,           \* the provider's mount effect has run
    loginPending,      \* login() awaits the answer of /auth/login
    now                \* the time, as new Date() reads it

\* GenerateExam: the error banner and the retries of a generation
VARIABLES
    error,             \* useState("")
    retryCount,        \* useState(0)
    file,              \* useState(null), the file chosen for upload
    attempts,          \* the `attempts` argument of the generateWithRetry call in progress
    requests           \* requests posted since the form was last submitted

\* the PIN-pad admin page
VARIABLES
    pin,               \* useState("")
    isAuthenticated,   \* useState(false)
    adminLoading,      \* useState(false), the page's `loading`
    adminError,        \* useState(""), the page's `error`
    shake,             \* useState(false)
    payments,          \* useState([])
    gameAnswers,       \* useState([])
    sessionStorage,    \* the item 'apex_admin_auth', null when not stored
    adminRendered,     \* what the closures of the last render hold
    adminEffects,      \* the passive effects that render left pending
    logins             \* the handleLogin calls that await a fetch

hookVars == <<quizData, userAnswers, score, timeLeft, isActive, showSuccessModal, loading>>
quizVars == <<hookVars, rendered, answersFresh, pendingEffects, interval, lag,
              gen, finalizers, confetti>>
apiVars == <<localStorage, pathname, failed, rejection>>
authVars == <<user, token, authLoading, mounted, loginPending, now>>
genVars == <<error, retryCount, file, attempts, requests>>
pinVars == <<pin, isAuthenticated, adminLoading, adminError, shake, payments,
             gameAnswers, sessionStorage, adminRendered, adminEffects, logins>>
restVars == <<apiVars, authVars, genVars, pinVars>>
vars == <<quizVars, restVars>>

(* ------------------------------ services/api.js ------------------------- *)
MaxAffix == 1

\* JavaScript values other than the quiz's: a string is its characters, an
\* array its elements, an object without the fields read here is opaque
noValue == [undefined |-> TRUE]
String(chars) == [string |-> chars]
Array(elements) == [array |-> elements]
opaqueObject == [object |-> TRUE]
IsString(v) == "string" \in DOMAIN v
IsArray(v) == "array" \in DOMAIN v

\* ToBoolean, for the values above
truthy(v) ==
    /\ v # noValue
    /\ v # null
    /\ v # String(<<>>)
    /\ v # Num(0)
    /\ v # NaN

\* a || b
or(a, b) == IF truthy(a) THEN a ELSE b

\* String.prototype.includes: w occurs in s as a contiguous run of characters
Includes(s, w) ==
    \E i \in 1..(Len(s) - Len(w) + 1) : SubSeq(s, i, i + Len(w) - 1) = w

\* Array.prototype.includes: some element is the value
ArrayIncludes(a, v) == \E i \in 1..Len(a) : a[i] = v

\* the routes of App.jsx the interceptor can run on
Routes == {<<"/">>, <<"/", "g", "e", "n", "e", "r", "a", "t", "e">>, <<"/", "l", "o", "g", "i", "n">>, <<"/", "a", "d", "m", "i", "n">>, <<"/", "a", "d", "m", "i", "n", "-", "l", "o", "g", "i", "n">>}

TypeError == [TypeError |-> "detail.includes is not a function"]

wordExpired == <<"e", "x", "p", "i", "r", "e", "d">>
wordCredentials == <<"c", "r", "e", "d", "e", "n", "t", "i", "a", "l", "s">>
wordInactive == <<"i", "n", "a", "c", "t", "i", "v", "e">>
AuthWords == {wordExpired, wordCredentials, wordInactive}

\* detail.includes(word), lines 41-43: a value that is neither a string nor an
\* array has no includes method and the call throws
hasIncludes(detail) == IsString(detail) \/ IsArray(detail)
includes(detail, word) ==
    IF IsString(detail) THEN Includes(detail.string, word)
    ELSE ArrayIncludes(detail.array, String(word))

\* error.response?.status and error.response?.data?.detail
statusOf(err) ==
    IF err.response = noValue THEN noValue ELSE Num(err.response.status)
detailOf(err) ==
    IF err.response = noValue THEN noValue
    ELSE IF "detail" \in DOMAIN err.response.data THEN err.response.data.detail
    ELSE noValue

\* lines 40-45
isAuthError(err, detail) ==
    \/ \E w \in AuthWords : includes(detail, w)
    \/ statusOf(err) = Num(401)

\* localStorage.removeItem of both items, lines 47-48
removeItems(storage) == [storage EXCEPT !.token = null, !.user_data = null]

\* lines 51-54
redirected(path) ==
    IF ~Includes(path, <<"/", "l", "o", "g", "i", "n">>) /\ ~Includes(path, <<"/", "a", "d", "m", "i", "n">>) THEN <<"/", "l", "o", "g", "i", "n">> ELSE path

\* the rejection handler of the response interceptor, lines 31-60, run on
\* error with the given storage and location: what it leaves behind
onRejected(err, storage, path) ==
    IF err.code = "ECONNABORTED"
    THEN [localStorage |-> storage, pathname |-> path, rejection |-> err]
    ELSE IF statusOf(err) \in {Num(401), Num(403)}
    THEN LET detail == or(detailOf(err), String(<<>>))
         IN  IF ~hasIncludes(detail)
             THEN [localStorage |-> storage, pathname |-> path,
                   rejection |-> TypeError]
             ELSE IF isAuthError(err, detail)
             THEN [localStorage |-> removeItems(storage),
                   pathname |-> redirected(path), rejection |-> err]
             ELSE [localStorage |-> storage, pathname |-> path,
                   rejection |-> err]
    ELSE [localStorage |-> storage, pathname |-> path, rejection |-> err]

\* the strings a response can carry as detail: a word with up to MaxAffix
\* characters before and after it
Affixes == UNION {[1..n -> {" "}] : n \in 0..MaxAffix}
DetailWords == AuthWords \cup {<<"E", "x", "p", "i", "r", "e", "d">>, <<"e", "x", "p", "i", "r", "e">>, <<"d", "e", "n", "i", "e", "d">>}
DetailStrings == {pre \o w \o suf : pre \in Affixes, suf \in Affixes, w \in DetailWords}
Details ==
    {noValue, null, String(<<>>), opaqueObject, Num(403),
     Array(<<String(wordExpired)>>), Array(<<opaqueObject>>)}
        \cup {String(str) : str \in DetailStrings}

\* response bodies: none, a page of text, an object with or without detail
Bodies == {noValue, String(<<"d", "e", "n", "i", "e", "d">>), opaqueObject} \cup {[detail |-> d] : d \in Details}
Statuses == {400, 401, 403, 404, 500}

\* the errors axios hands to the interceptor: a timeout or a network failure
\* has no response, a response outside 2xx has a status and a body
Errors ==
    {[code |-> c, response |-> noValue] : c \in {"ECONNABORTED", "ERR_NETWORK"}}
        \cup {[code |-> IF st >= 500 THEN "ERR_BAD_RESPONSE" ELSE "ERR_BAD_REQUEST",
               response |-> [status |-> st, data |-> b]] : st \in Statuses, b \in Bodies}

StoredToken == String(<<"j", "w", "t">>)
StoredUserData == String(<<"{", "}">>)
ParsedUserData == opaqueObject
Storages ==
    {[token |-> t, user_data |-> u] : t \in {null, StoredToken}, u \in {null, StoredUserData}}

\* a request made through the api instance failed
responseError ==
    /\ \E err \in Errors :
        /\ failed' = err
        /\ \E after \in {onRejected(err, localStorage, pathname)} :
            /\ localStorage' = after.localStorage
            /\ pathname' = after.pathname
            /\ rejection' = after.rejection
    /\ UNCHANGED <<quizVars, authVars, genVars, pinVars>>

\* the user follows a link or the router redirects
navigate ==
    /\ \E route \in Routes : route # pathname /\ pathname' = route
    /\ UNCHANGED <<localStorage, failed, rejection, quizVars, authVars, genVars, pinVars>>

\* GenerateExam after mount: no error shown, no generation under way
GenInit ==
    /\ error = String(<<>>)
    /\ retryCount = 0
    /\ file = null
    /\ attempts = 0
    /\ requests = 0

(* --------------------------- context/AuthContext ------------------------ *)
MaxTime == 2

\* the instants of the model's clock, and the date strings the server sends
\* for them
Instants == 0..MaxTime
isoOf(t) == String(<<ToString(t)>>)

\* new Date(value) of a string: its time, NaN (Invalid Date) when the string
\* is not a date
DateOf(value) ==
    IF \E t \in Instants : value = isoOf(t)
    THEN Num(CHOOSE t \in Instants : value = isoOf(t))
    ELSE NaN

SyntaxError == [SyntaxError |-> "Unexpected token in JSON"]

\* a JSON text is the sequence of its tokens. JSON.stringify(userObj), line
\* 93: of the fields of userObj only subscription_end is read back, the
\* others are left out of the text
literal(value) ==
    IF value = null THEN <<"null">> ELSE <<"\"">> \o value.string \o <<"\"">>
stringify(userObj) ==
    <<"{", "subscription_end", ":">> \o literal(userObj.subscription_end) \o <<"}">>

\* JSON.parse(text), line 35 (and GenerateExam.jsx line 177): the value, or
\* the SyntaxError it throws. The texts are null, a one-digit number, a
\* string, a list of question objects, {} and an object of one field; the
\* text of a question object is the single token "Q"
Structural == {"{", "}", "[", "]", ":", ",", "\"", "null"}
IsLiteral(tokens) ==
    \/ tokens = <<"null">>
    \/ /\ Len(tokens) >= 2
       /\ tokens[1] = "\"" /\ tokens[Len(tokens)] = "\""
       /\ \A i \in 2..(Len(tokens) - 1) : tokens[i] # "\""
IsNumberText(tokens) == \E n \in 0..9 : tokens = <<ToString(n)>>
IsArrayText(tokens) ==
    /\ Len(tokens) >= 2
    /\ tokens[1] = "[" /\ tokens[Len(tokens)] = "]"
    /\ \/ Len(tokens) = 2
       \/ /\ Len(tokens) % 2 = 1
          /\ \A i \in 2..(Len(tokens) - 1) :
                tokens[i] = IF i % 2 = 0 THEN "Q" ELSE ","
IsValueText(tokens) == IsLiteral(tokens) \/ IsNumberText(tokens) \/ IsArrayText(tokens)
valueOf(tokens) ==
    IF tokens = <<"null">> THEN null
    ELSE IF IsNumberText(tokens) THEN Num(CHOOSE n \in 0..9 : tokens = <<ToString(n)>>)
    ELSE IF IsArrayText(tokens)
    THEN Array([i \in 1..(IF Len(tokens) = 2 THEN 0 ELSE (Len(tokens) - 1) \div 2)
                    |-> Question(i)])
    ELSE String(SubSeq(tokens, 2, Len(tokens) - 1))
parse(text) ==
    IF IsValueText(text) THEN valueOf(text)
    ELSE IF text = <<"{", "}">> THEN opaqueObject
    ELSE IF /\ Len(text) >= 5
            /\ text[1] = "{" /\ text[2] \notin Structural /\ text[3] = ":"
            /\ text[Len(text)] = "}"
            /\ IsValueText(SubSeq(text, 4, Len(text) - 1))
    THEN [key \in {text[2]} |-> valueOf(SubSeq(text, 4, Len(text) - 1))]
    ELSE SyntaxError

\* userData.subscription_end, line 37
subscriptionEndOf(userData) ==
    IF "subscription_end" \in DOMAIN userData THEN userData.subscription_end
    ELSE noValue

\* endDate && now > endDate, line 41; a comparison with NaN is false
expiredFromEndDate(endDate, time) ==
    endDate # null /\ endDate # NaN /\ time >= endDate.num
subscriptionExpired(endDate, time) ==
    endDate # null /\ endDate # NaN /\ time > endDate.num

\* logout(), lines 14-19, on the provider's state a
logout(a) ==
    [a EXCEPT !.localStorage = removeItems(a.localStorage),
              !.token = null, !.user = null]

\* validateSession(), lines 24-59, at the given time
validated(a, time) ==
    LET storedToken == a.localStorage.token
        storedUserData == a.localStorage.user_data
    IN  IF ~truthy(storedToken) THEN [a EXCEPT !.authLoading = FALSE]
        ELSE IF ~truthy(storedUserData)
        THEN [logout(a) EXCEPT !.authLoading = FALSE]
        ELSE LET userData == parse(storedUserData.string)
             IN  IF userData = SyntaxError \/ userData = null
                 THEN \* JSON.parse or the read of a field of null throws
                      [logout(a) EXCEPT !.authLoading = FALSE]
                 ELSE LET endDate ==
                              IF truthy(subscriptionEndOf(userData))
                              THEN DateOf(subscriptionEndOf(userData))
                              ELSE null
                      IN  IF subscriptionExpired(endDate, time)
                          THEN [logout(a) EXCEPT !.authLoading = FALSE]
                          ELSE [a EXCEPT !.user = userData, !.token = storedToken,
                                         !.authLoading = FALSE]

authState ==
    [localStorage |-> localStorage, user |-> user, token |-> token,
     authLoading |-> authLoading]
AuthBecomes(a) ==
    /\ localStorage' = a.localStorage
    /\ user' = a.user
    /\ token' = a.token
    /\ authLoading' = a.authLoading

\* the mount effect of the provider, lines 21-62
validateSession ==
    /\ ~mounted
    /\ mounted' = TRUE
    /\ \E after \in {validated(authState, now)} : AuthBecomes(after)
    /\ UNCHANGED <<loginPending, now, pathname, failed, rejection, quizVars, genVars, pinVars>>

\* a consumer of the context calls logout()
logoutCall ==
    /\ mounted
    /\ \E after \in {logout(authState)} : AuthBecomes(after)
    /\ UNCHANGED <<mounted, loginPending, now, pathname, failed, rejection, quizVars, genVars, pinVars>>

\* login(), lines 64-76: up to the await of the request
loginCall ==
    /\ mounted /\ ~loginPending
    /\ authLoading' = TRUE
    /\ loginPending' = TRUE
    /\ UNCHANGED <<localStorage, user, token, mounted, now, pathname, failed,
                   rejection, quizVars, genVars, pinVars>>

\* what /auth/login answers with: a token or none, and the end of the
\* subscription as a date string, a string that is no date, or nothing
LoginResponses ==
    {[access_token |-> t, subscription_end |-> e] :
        t \in {noValue, StoredToken},
        e \in {noValue, null, String(<<"soon">>)} \cup {isoOf(i) : i \in Instants}}

\* login(), lines 77-104, once the request was answered
loggedIn(a, data) ==
    IF truthy(data.access_token)
    THEN LET userObj == [subscription_end |-> or(data.subscription_end, null)]
         IN  [a EXCEPT !.localStorage =
                           [token |-> data.access_token,
                            user_data |-> String(stringify(userObj))],
                       !.token = data.access_token,
                       !.user = userObj,
                       !.authLoading = FALSE]
    ELSE [a EXCEPT !.authLoading = FALSE]
loginAnswered ==
    /\ loginPending
    /\ loginPending' = FALSE
    /\ \E data \in LoginResponses :
         \E after \in {loggedIn(authState, data)} : AuthBecomes(after)
    /\ UNCHANGED <<mounted, now, pathname, failed, rejection, quizVars, genVars, pinVars>>

\* login(), lines 97-104, when the request failed
loginFailed ==
    /\ loginPending
    /\ loginPending' = FALSE
    /\ authLoading' = FALSE
    /\ UNCHANGED <<localStorage, user, token, mounted, now, pathname, failed,
                   rejection, quizVars, genVars, pinVars>>

\* the page is loaded again, at the same time or later: the provider starts
\* from its initial state, the storage is what the last visit left
reload ==
    /\ mounted
    /\ mounted' = FALSE
    /\ user' = null
    /\ token' = null
    /\ authLoading' = TRUE
    /\ loginPending' = FALSE
    /\ now' \in {t \in Instants : t >= now}
    /\ UNCHANGED <<localStorage, pathname, failed, rejection, quizVars, genVars, pinVars>>

\* what an earlier visit can have left as user_data: nothing, a text cut
\* short, and the texts login() writes; {} and null are texts without the field
UserDataTexts ==
    {<<"{", "}">>, <<"null">>, <<"{", "subscription_end", ":">>}
        \cup {stringify([subscription_end |-> e]) :
                e \in {null, String(<<"soon">>)} \cup {isoOf(i) : i \in Instants}}
AuthStorages ==
    {[token |-> t, user_data |-> u] :
        t \in {null, StoredToken},
        u \in {null} \cup {String(text) : text \in UserDataTexts}}

(* -------------------- the PIN pad of the admin page --------------------- *)
ADMIN_PIN == <<"1", "0", "1", "0">>

\* pin.length < 4 in handlePinClick, pin.length === 4 in the [pin] effect
PinLength == 4

\* the keys of the pad; "2" stands for the keys 2 to 9, none of which occurs
\* in ADMIN_PIN
Digits == {"0", "1", "2"}

\* sessionStorage as a visit to the password page can have left it
SessionStorages ==
    {[apex_admin_auth |-> v] : v \in {null, String(<<"1">>), String(<<"0">>)}}

\* the page's state as one record, so that handler, effects and render of one
\* event-loop turn compose as functions
adminState ==
    [pin |-> pin, isAuthenticated |-> isAuthenticated, loading |-> adminLoading,
     error |-> adminError, shake |-> shake, payments |-> payments,
     gameAnswers |-> gameAnswers, rendered |-> adminRendered,
     effects |-> adminEffects, logins |-> logins]

AdminBecomes(a) ==
    /\ pin' = a.pin
    /\ isAuthenticated' = a.isAuthenticated
    /\ adminLoading' = a.loading
    /\ adminError' = a.error
    /\ shake' = a.shake
    /\ payments' = a.payments
    /\ gameAnswers' = a.gameAnswers
    /\ adminRendered' = a.rendered
    /\ adminEffects' = a.effects
    /\ logins' = a.logins
    /\ UNCHANGED <<sessionStorage, quizVars, apiVars, authVars, genVars>>

\* pin !== ADMIN_PIN, line 46, negated
pinAcceptedWhateverItIs(entered) == TRUE
pinAccepted(entered) == entered = ADMIN_PIN

\* handleLogin up to its first await. `pin` is the pin of the render whose
\* closure the call runs in
handleLogin(a, isAuto) ==
    IF ~isAuto /\ ~pinAccepted(a.rendered.pin)
    THEN [a EXCEPT !.error = "Incorrect PIN. Access Denied.",
                   !.shake = TRUE,
                   !.pin = <<>>]
    ELSE [a EXCEPT !.loading = TRUE,
                   !.error = "",
                   !.logins = Append(@, [isAuto |-> isAuto,
                                         pin |-> a.rendered.pin,
                                         awaits |-> "payments",
                                         response |-> noValue])]

\* useEffect(..., []): the automatic sign-in
authEffect(a) ==
    IF sessionStorage.apex_admin_auth = String(<<"1">>)
    THEN handleLogin(a, TRUE)
    ELSE a

\* useEffect(..., [pin])
pinEffect(a) ==
    IF Len(a.rendered.pin) = PinLength THEN handleLogin(a, FALSE) ELSE a

\* the pending passive effects run in the order of their declaration, with
\* the closure of the render that scheduled them
flushAdminEffects(a) ==
    LET afterAuth == IF "auth" \in a.effects THEN authEffect(a) ELSE a
        afterPin == IF "pin" \in a.effects THEN pinEffect(afterAuth) ELSE afterAuth
    IN  [afterPin EXCEPT !.effects = {}]

\* a render commits the hooks' state and schedules the [pin] effect when pin
\* differs from the pin of the render before
commitAdmin(a) ==
    [a EXCEPT !.rendered = [pin |-> a.pin, loading |-> a.loading,
                            isAuthenticated |-> a.isAuthenticated],
              !.effects = IF a.pin # a.rendered.pin THEN {"pin"} ELSE {}]

syncRenderAdmin(a) == AdminBecomes(commitAdmin(flushAdminEffects(a)))

\* the pad is what the page renders until isAuthenticated, line 120, and
\* its keys are disabled while loading
PadEnabled == ~adminRendered.isAuthenticated /\ ~adminRendered.loading

handlePinClick(digit) ==
    /\ PadEnabled
    /\ syncRenderAdmin([adminState EXCEPT
            !.error = "",
            !.pin = IF Len(adminRendered.pin) < PinLength
                    THEN Append(@, digit)
                    ELSE @])

\* prev.slice(0, -1)
handleDelete ==
    /\ PadEnabled
    /\ syncRenderAdmin([adminState EXCEPT
            !.error = "",
            !.pin = IF @ = <<>> THEN <<>> ELSE SubSeq(@, 1, Len(@) - 1)])

\* the callback of triggerShake's timer
shakeTimeout ==
    /\ shake
    /\ AdminBecomes([adminState EXCEPT !.shake = FALSE])

adminFlushPassiveEffects ==
    /\ adminEffects # {}
    /\ AdminBecomes(flushAdminEffects(adminState))

adminRender ==
    /\ adminRendered # commitAdmin(adminState).rendered
    /\ syncRenderAdmin(adminState)

\* what the backend can answer: ok or not, with a body that is a list, the
\* JSON null, or no JSON at all
AdminBodies == {Array(<<opaqueObject>>), Array(<<>>), null, SyntaxError}
AdminResponses == {[ok |-> o, body |-> b] : o \in BOOLEAN, b \in AdminBodies}

without1(seq, i) == SubSeq(seq, 1, i - 1) \o SubSeq(seq, i + 1, Len(seq))

\* the catch block and the finally block
loginCaught(a, i) ==
    [a EXCEPT !.isAuthenticated = TRUE,
              !.loading = FALSE,
              !.logins = without1(@, i)]

\* the first fetch answers: a 401 or 403 is ignored and the second is sent
paymentsAnswered(i, response) ==
    /\ logins[i].awaits = "payments"
    /\ AdminBecomes([adminState EXCEPT
            !.logins[i].awaits = "games",
            !.logins[i].response = response])

\* either fetch rejects: no connection
fetchRejected(i) ==
    /\ i \in DOMAIN logins
    /\ AdminBecomes(loginCaught(adminState, i))

\* the second fetch answers, lines 80 to 95
gamesAnswered(i, gamesRes) ==
    /\ logins[i].awaits = "games"
    /\ LET response == logins[i].response
           a == adminState
           paid == IF response.ok
                   THEN [a EXCEPT !.payments = or(response.body, Array(<<>>))]
                   ELSE a
           played == IF gamesRes.ok
                     THEN [paid EXCEPT !.gameAnswers = or(gamesRes.body, Array(<<>>))]
                     ELSE paid
       IN  IF response.ok /\ response.body = SyntaxError
           THEN AdminBecomes(loginCaught(a, i))
           ELSE IF gamesRes.ok /\ gamesRes.body = SyntaxError
           THEN AdminBecomes(loginCaught(paid, i))
           ELSE AdminBecomes([played EXCEPT !.isAuthenticated = TRUE,
                                            !.loading = FALSE,
                                            !.logins = without1(@, i)])

\* the page before its first effects have run, nothing entered
PinIdle ==
    /\ pin = <<>>
    /\ isAuthenticated = FALSE
    /\ adminLoading = FALSE
    /\ adminError = ""
    /\ shake = FALSE
    /\ payments = Array(<<>>)
    /\ gameAnswers = Array(<<>>)
    /\ adminRendered = [pin |-> <<>>, loading |-> FALSE, isAuthenticated |-> FALSE]
    /\ adminEffects = {"auth", "pin"}
    /\ logins = <<>>

\* the page as loaded while signed in, no request failed yet
RestInit ==
    /\ localStorage = [token |-> StoredToken, user_data |-> StoredUserData]
    /\ pathname = <<"/", "g", "e", "n", "e", "r", "a", "t", "e">>
    /\ failed = noValue
    /\ rejection = noValue
    /\ user = ParsedUserData
    /\ token = StoredToken
    /\ authLoading = FALSE
    /\ mounted = TRUE
    /\ loginPending = FALSE
    /\ now = 0
    /\ GenInit
    /\ PinIdle
    /\ sessionStorage = [apex_admin_auth |-> null]

\* the whole state as one record, so that the steps React runs within one
\* event-loop turn (handler, effect flush, render) compose as functions
state ==
    [quizData |-> quizData, userAnswers |-> userAnswers, score |-> score,
     timeLeft |-> timeLeft, isActive |-> isActive,
     showSuccessModal |-> showSuccessModal, loading |-> loading,
     rendered |-> rendered, answersFresh |-> answersFresh,
     pendingEffects |-> pendingEffects, interval |-> interval, lag |-> lag,
     gen |-> gen, finalizers |-> finalizers, confetti |-> confetti]

\* the event-loop turn leaves the component's quiz state as in t
QuizBecomes(t) ==
    /\ quizData' = t.quizData
    /\ userAnswers' = t.userAnswers
    /\ score' = t.score
    /\ timeLeft' = t.timeLeft
    /\ isActive' = t.isActive
    /\ showSuccessModal' = t.showSuccessModal
    /\ loading' = t.loading
    /\ rendered' = t.rendered
    /\ answersFresh' = t.answersFresh
    /\ pendingEffects' = t.pendingEffects
    /\ interval' = t.interval
    /\ lag' = t.lag
    /\ gen' = t.gen
    /\ finalizers' = t.finalizers
    /\ confetti' = t.confetti

\* the event-loop turn ends in state t
Becomes(t) == QuizBecomes(t) /\ UNCHANGED restVars

\* the hook values of s, as the next render reads them
hookOf(s) ==
    [quizData |-> s.quizData, userAnswers |-> s.userAnswers, score |-> s.score,
     timeLeft |-> s.timeLeft, isActive |-> s.isActive,
     showSuccessModal |-> s.showSuccessModal, loading |-> s.loading]

\* which of the three views the last render put on screen, lines 292, 413, 463
FormView == rendered.quizData = null
SessionView == rendered.quizData # null /\ rendered.score = null
ResultsView == rendered.quizData # null /\ rendered.score # null

\* the component after mount: both effects have run once and returned early
QuizInit ==
    /\ quizData = null
    /\ userAnswers = <<>>
    /\ score = null
    /\ timeLeft = 0
    /\ isActive = FALSE
    /\ showSuccessModal = FALSE
    /\ loading = FALSE
    /\ rendered = [quizData |-> null, userAnswers |-> <<>>, score |-> null,
                   timeLeft |-> 0, isActive |-> FALSE,
                   showSuccessModal |-> FALSE, loading |-> FALSE]
    /\ answersFresh = FALSE
    /\ pendingEffects = {}
    /\ interval = FALSE
    /\ lag = 0
    /\ gen = "idle"
    /\ finalizers = <<>>
    /\ confetti = 0

\* the application after the page has loaded
Init == QuizInit /\ RestInit

(* ------------------------- render and effects -------------------------- *)
\* the dependency array of the timer effect, line 226, changed in the render of s
timerDepsChanged(s) == s.rendered.isActive # s.isActive

\* the dependency array of the time-up effect, line 247, changed in the render of s
timeUpDepsChanged(s) ==
    \/ s.rendered.timeLeft # s.timeLeft
    \/ s.rendered.isActive # s.isActive
    \/ s.rendered.quizData # s.quizData
    \/ s.rendered.score # s.score
    \/ s.answersFresh

\* a render and its commit: the closures of handlers and effects are renewed
\* and the effects whose dependencies changed are scheduled
commit(s) ==
    [s EXCEPT !.rendered = hookOf(s),
              !.pendingEffects = (IF timerDepsChanged(s) THEN {"timer"} ELSE {})
                                 \cup (IF timeUpDepsChanged(s) THEN {"timeUp"} ELSE {}),
              !.answersFresh = FALSE,
              !.lag = 0]

\* the timer effect, lines 220-226: the cleanup of the previous run clears its
\* interval, the body sets a new one while isActive
timerEffect(s) == [s EXCEPT !.interval = s.rendered.isActive]

\* an early return that looks at the countdown alone
timeUpReturnsOnTime(r) == r.timeLeft > 0

\* the early return of the time-up effect, line 230, on the closure values
timeUpReturns(r) == ~r.isActive \/ r.timeLeft > 0 \/ r.score # null

\* a finalization that also empties the answer map it has scored
withFinalScoreClearing(s, fs, who) ==
    [s EXCEPT !.score = fs,
              !.finalizers = Append(s.finalizers, who),
              !.userAnswers = <<>>]

\* setScore(finalScore); if (finalScore >= 50) { triggerConfetti();
\* setShowSuccessModal(true) }, lines 241-245 and 268-272, called by `who`
withFinalScore(s, fs, who) ==
    [s EXCEPT !.score = fs,
              !.finalizers = Append(s.finalizers, who),
              !.confetti = IF passes(fs) THEN s.confetti + 1 ELSE s.confetti,
              !.showSuccessModal = IF passes(fs) THEN TRUE ELSE s.showSuccessModal]

\* a time-up effect that stores the score and never opens the success modal
timeUpEffectScoreOnly(s) ==
    IF timeUpReturns(s.rendered) \/ s.rendered.quizData = null THEN s
    ELSE [s EXCEPT !.isActive = FALSE,
                   !.score = finalScore(s.rendered.quizData, s.rendered.userAnswers),
                   !.finalizers = Append(s.finalizers, "timeUp")]

\* a time-up effect that scores and leaves the session active
timeUpEffectStaysActive(s) ==
    IF timeUpReturns(s.rendered) \/ s.rendered.quizData = null THEN s
    ELSE withFinalScore(s, finalScore(s.rendered.quizData, s.rendered.userAnswers),
                        "timeUp")

\* the time-up effect, lines 229-247
timeUpEffect(s) ==
    IF timeUpReturns(s.rendered) THEN s
    ELSE IF s.rendered.quizData = null THEN [s EXCEPT !.isActive = FALSE]
    ELSE withFinalScore([s EXCEPT !.isActive = FALSE],
                        finalScore(s.rendered.quizData, s.rendered.userAnswers),
                        "timeUp")

\* the passive effects of the last commit run, in the order of their hooks
flushPassiveEffects(s) ==
    LET s1 == IF "timer" \in s.pendingEffects THEN timerEffect(s) ELSE s
        s2 == IF "timeUp" \in s.pendingEffects THEN timeUpEffect(s1) ELSE s1
    IN  [s2 EXCEPT !.pendingEffects = {}]

\* updates issued by a click are rendered within the same turn: React first
\* flushes the passive effects still pending, then renders and commits
syncRenderQuiz(s) ==
    \E flushed \in {flushPassiveEffects(s)} :
        \E committed \in {commit(flushed)} : QuizBecomes(committed)
syncRender(s) == syncRenderQuiz(s) /\ UNCHANGED restVars

\* the render React schedules for updates issued by a timer callback, a
\* promise continuation or an effect
Render ==
    /\ pendingEffects = {}                     \* pending effects are flushed first
    /\ hookOf(state) # rendered \/ answersFresh
    /\ \E committed \in {commit(state)} : Becomes(committed)

\* the turn in which the passive effects of the last commit run
FlushPassiveEffects ==
    /\ pendingEffects # {}
    /\ \E flushed \in {flushPassiveEffects(state)} : Becomes(flushed)

(* ------------------------------ handlers ------------------------------- *)
\* the history variables restart whenever setScore(null) opens a new session
newSession(s) == [s EXCEPT !.finalizers = <<>>, !.confetti = 0]

\* handleGenerate, lines 130-161, up to the await. `valid` is whether the
\* topic (or the file) the chosen mode needs is present.
handleGenerateStart(s, valid) ==
    IF s.rendered.loading THEN s               \* if (loading) return
    ELSE newSession([s EXCEPT !.loading = valid,
                              !.quizData = null,
                              !.score = null,
                              !.userAnswers = <<>>,
                              !.answersFresh = TRUE,
                              !.isActive = FALSE,
                              !.gen = IF valid THEN "awaiting" ELSE s.gen])

\* a submit of the form, line 325; the button is disabled while loading, line 395
handleGenerate(valid) ==
    /\ FormView
    /\ ~rendered.loading
    /\ \E handled \in {handleGenerateStart(state, valid)} : syncRender(handled)

\* setTimeLeft(parsedQuestions.questions.length * 60)
totalTime(qd) == Len(qd.questions) * SecondsPerQuestion

\* handleGenerate, lines 163-216, after the await, for a response whose
\* questions field is an array of gn questions
generateAccepted(gn) ==
    /\ gen = "awaiting"
    /\ Becomes([state EXCEPT !.quizData = Quiz(gn),
                             !.timeLeft = totalTime(Quiz(gn)),
                             !.isActive = TRUE,
                             !.loading = FALSE,
                             !.gen = "idle"])

\* handleGenerate, lines 163-216, after the await, when every attempt failed
\* or the content was not a quiz: only the error is shown
generateRejected ==
    /\ gen = "awaiting"
    /\ Becomes([state EXCEPT !.loading = FALSE, !.gen = "idle"])

\* an updater that takes two seconds off the countdown
tickSkips(prev) == prev - 2

\* an updater that leaves the countdown where it is
tickKeeps(prev) == prev

\* the updater of the interval callback: (prev) => prev - 1
tickUpdater(prev) == prev - 1

\* the setInterval callback of the timer effect, lines 222-224
Tick ==
    /\ interval
    /\ lag < MaxLag
    /\ Becomes([state EXCEPT !.timeLeft = tickUpdater(timeLeft), !.lag = lag + 1])

\* an update that keeps the new entry alone
onlyAnswer(prev, questionId, option) == [ak \in {questionId} |-> option]

\* { ...prev, [questionId]: option }
withAnswer(prev, questionId, option) ==
    [ak \in DOMAIN prev \cup {questionId} |->
        IF ak = questionId THEN option ELSE prev[ak]]

\* handleAnswerSelect, lines 249-255
handleAnswerSelect(s, questionId, option) ==
    IF s.rendered.score # null THEN s          \* if (score !== null) return
    ELSE [s EXCEPT !.userAnswers = withAnswer(s.userAnswers, questionId, option),
                   !.answersFresh = TRUE]

\* the button of option oo of question oq, lines 442-450:
\* onClick={() => handleAnswerSelect(q.id, opt)}
selectOption(oq, oo) ==
    /\ SessionView
    /\ oq \in 1..Len(rendered.quizData.questions)
    /\ oo \in 1..Len(rendered.quizData.questions[oq].options)
    /\ \E handled \in {handleAnswerSelect(state,
                            rendered.quizData.questions[oq].id,
                            rendered.quizData.questions[oq].options[oo])} :
          syncRender(handled)

\* the option buttons of the session view, lines 435-450: one per question
\* and offered option, each calling handleAnswerSelect(q.id, opt)
optionClick ==
    /\ SessionView
    /\ \E oq \in 1..Len(rendered.quizData.questions) :
         \E oo \in 1..Len(rendered.quizData.questions[oq].options) :
            selectOption(oq, oo)

\* a submit that stores the score and leaves the session Active
handleSubmitQuizStaysActive(s) ==
    IF s.rendered.quizData = null THEN s
    ELSE withFinalScore(s, finalScore(s.rendered.quizData, s.rendered.userAnswers),
                        "submit")

\* handleSubmitQuiz, lines 257-273
handleSubmitQuiz(s) ==
    IF s.rendered.quizData = null THEN s       \* if (!quizData) return
    ELSE withFinalScore([s EXCEPT !.isActive = FALSE],
                        finalScore(s.rendered.quizData, s.rendered.userAnswers),
                        "submit")

\* "Submit & View Score", line 456, or a confirmed "End Session", line 427
submitClick ==
    /\ SessionView
    /\ \E handled \in {handleSubmitQuiz(state)} : syncRender(handled)

\* the New Assessment button of the results view, line 498
newAssessment ==
    /\ ResultsView
    /\ \E handled \in {newSession([state EXCEPT !.quizData = null,
                                                  !.score = null,
                                                  !.userAnswers = <<>>,
                                                  !.answersFresh = TRUE,
                                                  !.showSuccessModal = FALSE])} :
          syncRender(handled)

\* a retake that keeps the answers of the attempt before
retakeQuizKeepsAnswers ==
    /\ ResultsView
    /\ \E handled \in {newSession([state EXCEPT !.score = null,
                                                  !.showSuccessModal = FALSE,
                                                  !.timeLeft = totalTime(rendered.quizData),
                                                  !.isActive = TRUE])} :
          syncRender(handled)

\* the Retake Quiz button of the results view, line 504
retakeQuiz ==
    /\ ResultsView
    /\ \E handled \in {newSession([state EXCEPT !.score = null,
                                                  !.userAnswers = <<>>,
                                                  !.answersFresh = TRUE,
                                                  !.showSuccessModal = FALSE,
                                                  !.timeLeft = totalTime(rendered.quizData),
                                                  !.isActive = TRUE])} :
          syncRender(handled)

\* onClose of the success modal, line 286
closeSuccessModal ==
    /\ rendered.showSuccessModal
    /\ \E handled \in {[state EXCEPT !.showSuccessModal = FALSE]} : syncRender(handled)

(* ------------------- generation: requests, retries, errors -------------- *)
\* generateWithRetry(formData, attempts = 2), line 105
DefaultAttempts == 2

\* what a failed request to /exams/generate is rejected with once the
\* response interceptor has let it through: a timeout, a network failure, or
\* an answer outside 2xx that is no authentication failure
GenBodies ==
    {noValue, String(<<"Bad Gateway">>), [detail |-> String(<<"Model overloaded">>)],
     [detail |-> Array(<<opaqueObject>>)]}
GenErrors ==
    {[code |-> c, response |-> noValue] : c \in {"ECONNABORTED", "ERR_NETWORK"}}
        \cup {[code |-> IF st >= 500 THEN "ERR_BAD_RESPONSE" ELSE "ERR_BAD_REQUEST",
               response |-> [status |-> st, data |-> b]] : st \in {422, 500}, b \in GenBodies}

\* err.message: of an AxiosError by its code, of any other Error as thrown
messageOf(err) ==
    IF "message" \in DOMAIN err THEN err.message
    ELSE IF err.code = "ECONNABORTED" THEN String(<<"timeout", " of 300000ms exceeded">>)
    ELSE IF err.code = "ERR_NETWORK" THEN String(<<"Network Error">>)
    ELSE String(<<"Request failed with status code ", ToString(err.response.status)>>)

\* the error a failed attempt shows, lines 113-118
attemptMessage(err) ==
    IF err.code = "ECONNABORTED"
    THEN String(<<"AI Generation timed out. The server is still processing; please check your history in a few minutes.">>)
    ELSE or(or(detailOf(err), messageOf(err)),
            String(<<"Failed to generate exam. The AI engine might be warming up.">>))

\* the error handleGenerate shows for what its try block threw, lines 196-212
failureMessage(err) ==
    IF \/ "code" \in DOMAIN err /\ err.code = "ECONNABORTED"
       \/ Includes(messageOf(err).string, <<"timeout">>)
    THEN String(<<"The request timed out. The server is taking longer than expected. Please try uploading a smaller file or try again.">>)
    ELSE IF "response" \in DOMAIN err /\ truthy(err.response)
    THEN or(detailOf(err),
            String(<<"Server Error (", ToString(err.response.status), "): ">>))
    ELSE IF "code" \in DOMAIN err
    THEN String(<<"Network Error: No response from server. Please check your connection.">>)
    ELSE or(messageOf(err), String(<<"An unexpected error occurred.">>))

\* the TypeError of reading a property of null or undefined
propertyOfNull ==
    [message |-> String(<<"Cannot read properties of null (reading 'questions')">>)]

\* value.questions, for a value that is not null or undefined
questionsOf(value) ==
    IF "questions" \in DOMAIN value THEN value.questions ELSE noValue

\* typeof content === 'object', line 172
typeofObject(content) ==
    content = null \/ IsArray(content) \/ content = opaqueObject
        \/ "questions" \in DOMAIN content

\* the two replace calls and the trim of line 176; FENCE stands for the
\* three backquotes of a markdown code fence
without(tokens, tok) == SelectSeq(tokens, LAMBDA x : x # tok)
cleaned(tokens) == trim(without(without(tokens, "FENCEjson"), "FENCE"))

\* the items of an array, the characters of a string: what .length counts
itemsOf(value) == IF IsArray(value) THEN value.array ELSE value.string

\* the checks of lines 186-190 on the parsed content
acceptsAnyQuestions(parsedQuestions) == truthy(questionsOf(parsedQuestions))
accepts(parsedQuestions) ==
    truthy(questionsOf(parsedQuestions)) /\ IsArray(questionsOf(parsedQuestions))

\* handleGenerate, lines 165-194, on the data generateWithRetry returned:
\* the session it starts, or the error it shows
handled(data) ==
    IF \/ data = null
       \/ data = noValue
       \/ ~IsString(questionsOf(data)) /\ ~typeofObject(questionsOf(data))
    THEN \* data.questions or content.replace throws inside the inner try
         [start |-> FALSE,
          error |-> String(<<"Received invalid quiz format. Please try again or use a simpler topic.">>)]
    ELSE LET content == questionsOf(data)
             parsedQuestions == IF typeofObject(content) THEN content
                                ELSE parse(cleaned(content.string))
         IN  IF parsedQuestions = SyntaxError
             THEN [start |-> FALSE,
                   error |-> String(<<"Received invalid quiz format. Please try again or use a simpler topic.">>)]
             ELSE IF parsedQuestions = null
             THEN [start |-> FALSE, error |-> failureMessage(propertyOfNull)]
             ELSE IF ~accepts(parsedQuestions)
             THEN [start |-> FALSE, error |-> String(<<"Invalid question format received.">>)]
             ELSE [start |-> TRUE,
                   quizData |-> [questions |-> itemsOf(parsedQuestions.questions)]]

\* what /exams/generate answers with: the texts a questions string can
\* hold, with and without a code fence around them ...
quizText(n) ==
    <<"{", "questions", ":", "[">>
        \o [i \in 1..(IF n = 0 THEN 0 ELSE 2 * n - 1) |-> IF i % 2 = 1 THEN "Q" ELSE ","]
        \o <<"]", "}">>
fenced(text) == <<"FENCEjson", " ">> \o text \o <<" ", "FENCE">>
ContentTexts ==
    {<<>>, <<"Sorry">>, <<"null">>, <<"5">>, <<"[", "Q", "]">>, <<"{", "}">>,
     <<"{", "questions", ":", "null", "}">>,
     <<"{", "questions", ":", "\"", "none", "\"", "}">>,
     <<"{", "quiz", ":", "[", "Q", "]", "}">>,
     <<"{", "questions", ":", "[", "Q">>}
        \cup {quizText(n) : n \in 0..MaxQuestions}
        \cup {fenced(quizText(n)) : n \in 0..MaxQuestions}
\* ... the values the questions field can have ...
Contents ==
    {noValue, null, Num(5), opaqueObject, Array(<<Question(1)>>),
     [questions |-> String(<<"none">>)], [questions |-> null]}
        \cup {[questions |-> Array(Quiz(n).questions)] : n \in 0..MaxQuestions}
        \cup {String(text) : text \in ContentTexts}
\* ... and the bodies of the answer
ResponseData ==
    {null, String(<<"<html>">>), opaqueObject} \cup {[questions |-> c] : c \in Contents}

\* the form is submitted, line 325: handleGenerate up to its first await, or
\* up to the return of a failed validation, lines 130-163
formSubmit(valid) ==
    /\ FormView
    /\ ~rendered.loading
    /\ \E started \in {handleGenerateStart(state, valid)} : syncRenderQuiz(started)
    /\ error' = IF valid THEN String(<<>>) ELSE String(<<"Topic is required">>)
    /\ retryCount' = 0
    /\ attempts' = IF valid THEN DefaultAttempts ELSE attempts
    /\ requests' = IF valid THEN 1 ELSE 0
    /\ UNCHANGED <<file, apiVars, authVars, pinVars>>

\* if (attempts > 0), line 119
retriesLeftAtZero(n) == n >= 0
retriesLeft(n) == n > 0

\* the finally block of handleGenerate, lines 213-216, on the quiz state
runFinallyKeepsLoading(s) == [s EXCEPT !.gen = "idle"]
runFinally(s) == [s EXCEPT !.loading = FALSE, !.gen = "idle"]

\* lines 192-194 start the session and leave the error as it is
errorOnStartCleared(e) == String(<<>>)
errorOnStart(e) == e

\* the request of an attempt failed, lines 112-127; without attempts left
\* the error is thrown on to handleGenerate, lines 196-216
attemptFailed(err) ==
    /\ gen = "awaiting"
    /\ IF retriesLeft(attempts)
       THEN /\ error' = attemptMessage(err)
            /\ retryCount' = retryCount + 1
            /\ QuizBecomes([state EXCEPT !.gen = "delaying"])
       ELSE /\ error' = failureMessage(err)
            /\ retryCount' = 0
            /\ QuizBecomes(runFinally(state))
    /\ UNCHANGED <<file, attempts, requests, apiVars, authVars, pinVars>>

\* the two seconds of line 122 are over: generateWithRetry(formData, attempts - 1)
retryDelayElapsed ==
    /\ gen = "delaying"
    /\ attempts' = attempts - 1
    /\ requests' = requests + 1
    /\ QuizBecomes([state EXCEPT !.gen = "awaiting"])
    /\ UNCHANGED <<error, retryCount, file, apiVars, authVars, pinVars>>

\* the request of an attempt was answered: generateWithRetry returns res.data
\* and handleGenerate runs to its end, lines 111 and 165-216
attemptSucceeded(data) ==
    /\ gen = "awaiting"
    /\ \E outcome \in {handled(data)} :
         IF outcome.start
         THEN /\ QuizBecomes(runFinally([state EXCEPT
                                !.quizData = outcome.quizData,
                                !.timeLeft = totalTime(outcome.quizData),
                                !.isActive = TRUE]))
              /\ error' = errorOnStart(error)
         ELSE /\ QuizBecomes(runFinally(state))
              /\ error' = outcome.error
    /\ retryCount' = 0
    /\ UNCHANGED <<file, attempts, requests, apiVars, authVars, pinVars>>

\* the X of the error banner, line 523
dismissError ==
    /\ truthy(error)
    /\ error' = String(<<>>)
    /\ UNCHANGED <<retryCount, file, attempts, requests, quizVars, apiVars, authVars, pinVars>>

MAX_FILE_SIZE_MB == 20
ALLOWED_EXTENSIONS == {".pdf", ".docx", ".txt", ".pptx"}

\* toLowerCase, on the extensions of the files below
toLowerCase(ext) == IF ext = ".PDF" THEN ".pdf" ELSE ext

\* the files the user can pick: none (the dialog was closed), or a file of
\* a name and a size in bytes
NoFile == [files |-> 0]
Files ==
    {NoFile} \cup {[name |-> <<"notes", e>>, size |-> z] :
                     e \in {".pdf", ".PDF", ".exe"},
                     z \in {1024, MAX_FILE_SIZE_MB * 1024 * 1024 + 1}}

\* handleFileChange, lines 57-76, of the file input of the form: the error
\* is cleared, then the file is kept or an error says why it is not
handleFileChange(selectedFile) ==
    /\ FormView
    /\ IF selectedFile = NoFile
       THEN error' = String(<<>>) /\ file' = file
       ELSE IF selectedFile.size > MAX_FILE_SIZE_MB * 1024 * 1024
       THEN /\ error' = String(<<"File is too large. Maximum size is ",
                                  ToString(MAX_FILE_SIZE_MB), "MB.">>)
            /\ file' = file
       ELSE IF toLowerCase(selectedFile.name[Len(selectedFile.name)])
                    \notin ALLOWED_EXTENSIONS
       THEN /\ error' = String(<<"Unsupported file format. Please upload PDF, DOCX, TXT, or PPTX.">>)
            /\ file' = file
       ELSE error' = String(<<>>) /\ file' = selectedFile
    /\ UNCHANGED <<retryCount, attempts, requests, quizVars, apiVars, authVars, pinVars>>

(* --------------------------- specification ----------------------------- *)
Next ==
    \/ \E valid \in BOOLEAN : handleGenerate(valid)
    \/ \E gn \in 0..MaxQuestions : generateAccepted(gn)
    \/ generateRejected
    \/ Tick
    \/ optionClick
    \/ submitClick
    \/ newAssessment
    \/ retakeQuiz
    \/ closeSuccessModal
    \/ Render
    \/ FlushPassiveEffects

Spec == Init /\ [][Next]_vars

\* the session left to the clock: every step but a manual submit, the timer
\* firing while its interval is live, and React running every render and
\* effect flush it has scheduled
NextAuto ==
    \/ \E valid \in BOOLEAN : handleGenerate(valid)
    \/ \E gn \in 0..MaxQuestions : generateAccepted(gn)
    \/ generateRejected
    \/ Tick
    \/ optionClick
    \/ newAssessment
    \/ retakeQuiz
    \/ closeSuccessModal
    \/ Render
    \/ FlushPassiveEffects

LiveSpec ==
    /\ Init /\ [][NextAuto]_vars
    /\ WF_vars(Tick) /\ WF_vars(Render) /\ WF_vars(FlushPassiveEffects)

(* ------------------- scoring arithmetic on its own --------------------- *)
\* the option of question q that scoring counts as correct
correctOption(q) ==
    CHOOSE co \in {q.options[ci] : ci \in 1..Len(q.options)} : trim(co) = trim(q.answer)

\* a session in progress on a quiz of sn questions whose first sc questions
\* are answered correctly and whose others are unanswered; with `expired` the
\* countdown has just been rendered at zero and the time-up effect is pending
ScoreInit ==
    \E sn \in 1..MaxScoreQuestions : \E sc \in 0..sn : \E expired \in BOOLEAN :
        /\ quizData = Quiz(sn)
        /\ userAnswers = [si \in 1..sc |-> correctOption(Quiz(sn).questions[si])]
        /\ score = null
        /\ timeLeft = IF expired THEN 0 ELSE totalTime(Quiz(sn))
        /\ isActive = TRUE
        /\ showSuccessModal = FALSE
        /\ loading = FALSE
        /\ rendered = [quizData |-> quizData, userAnswers |-> userAnswers,
                       score |-> null, timeLeft |-> timeLeft, isActive |-> TRUE,
                       showSuccessModal |-> FALSE, loading |-> FALSE]
        /\ answersFresh = FALSE
        /\ pendingEffects = IF expired THEN {"timeUp"} ELSE {}
        /\ interval = TRUE
        /\ lag = 0
        /\ gen = "idle"
        /\ finalizers = <<>>
        /\ confetti = 0
        /\ RestInit

ScoreNext == submitClick \/ Render \/ FlushPassiveEffects

ScoreSpec == ScoreInit /\ [][ScoreNext]_vars

(* ------------------- answer comparison on its own ---------------------- *)
\* pn blanks
RECURSIVE Blanks(_)
Blanks(pn) == IF pn = 0 THEN <<>> ELSE <<" ">> \o Blanks(pn - 1)

\* texts without blanks at their ends: empty, two that differ in letter case
\* only, and one with a blank inside
Cores == {<<>>, <<"a">>, <<"A">>, <<"a", " ", "b">>}

\* the option and answer strings a response can carry: a core with up to
\* MaxPad blanks on either side
Strings == {Blanks(pl) \o core \o Blanks(pr) : pl \in 0..MaxPad, pr \in 0..MaxPad, core \in Cores}

\* a session in progress on a one-question quiz whose answer field is any
\* string or is missing, whose first option is any string and whose second
\* option is any core; nothing is selected yet
MatchInit ==
    \E ma \in Strings \cup {undefined} : \E mo \in Strings : \E mp \in Cores :
        /\ quizData = [questions |-> << [id |-> 1, options |-> <<mo, mp>>, answer |-> ma] >>]
        /\ userAnswers = <<>>
        /\ score = null
        /\ timeLeft = SecondsPerQuestion
        /\ isActive = TRUE
        /\ showSuccessModal = FALSE
        /\ loading = FALSE
        /\ rendered = [quizData |-> quizData, userAnswers |-> <<>>,
                       score |-> null, timeLeft |-> SecondsPerQuestion, isActive |-> TRUE,
                       showSuccessModal |-> FALSE, loading |-> FALSE]
        /\ answersFresh = FALSE
        /\ pendingEffects = {}
        /\ interval = TRUE
        /\ lag = 0
        /\ gen = "idle"
        /\ finalizers = <<>>
        /\ confetti = 0
        /\ RestInit

MatchNext == optionClick \/ submitClick \/ FlushPassiveEffects

MatchSpec == MatchInit /\ [][MatchNext]_vars

\* the generation of a quiz with its retries, and the session it starts
GenNext ==
    \/ \E valid \in BOOLEAN : formSubmit(valid)
    \/ \E err \in GenErrors : attemptFailed(err)
    \/ retryDelayElapsed
    \/ \E data \in ResponseData : attemptSucceeded(data)
    \/ dismissError
    \/ \E selectedFile \in Files : handleFileChange(selectedFile)
    \/ submitClick
    \/ newAssessment
    \/ Render
    \/ FlushPassiveEffects

GenSpec == Init /\ [][GenNext]_vars

\* every request is answered or times out (timeout: 300000, line 109), the
\* timer of line 122 fires, and React runs the renders it has scheduled
GenLiveSpec ==
    /\ Init /\ [][GenNext]_vars
    /\ WF_vars(\E err \in GenErrors : attemptFailed(err))
    /\ WF_vars(\E data \in ResponseData : attemptSucceeded(data))
    /\ WF_vars(retryDelayElapsed)
    /\ WF_vars(Render) /\ WF_vars(FlushPassiveEffects)

\* the results of a session of rn questions that was submitted with every
\* question answered correctly, the success modal open or closed
RetakeInit ==
    \E rn \in 1..MaxQuestions : \E modal \in BOOLEAN :
        /\ quizData = Quiz(rn)
        /\ userAnswers = [ri \in 1..rn |-> correctOption(Quiz(rn).questions[ri])]
        /\ score = finalScore(Quiz(rn), userAnswers)
        /\ timeLeft = totalTime(Quiz(rn))
        /\ isActive = FALSE
        /\ showSuccessModal = modal
        /\ loading = FALSE
        /\ rendered = [quizData |-> quizData, userAnswers |-> userAnswers,
                       score |-> score, timeLeft |-> timeLeft, isActive |-> FALSE,
                       showSuccessModal |-> modal, loading |-> FALSE]
        /\ answersFresh = FALSE
        /\ pendingEffects = {}
        /\ interval = FALSE
        /\ lag = 0
        /\ gen = "idle"
        /\ finalizers = <<"submit">>
        /\ confetti = 1
        /\ RestInit

RetakeNext ==
    \/ retakeQuiz
    \/ Tick
    \/ optionClick
    \/ submitClick
    \/ closeSuccessModal
    \/ Render
    \/ FlushPassiveEffects

RetakeSpec == RetakeInit /\ [][RetakeNext]_vars

\* requests failing on any page, with or without a stored session
ApiInit ==
    /\ QuizInit
    /\ localStorage \in Storages
    /\ pathname \in Routes
    /\ failed = noValue
    /\ rejection = noValue
    /\ user = ParsedUserData
    /\ token = StoredToken
    /\ authLoading = FALSE
    /\ mounted = TRUE
    /\ loginPending = FALSE
    /\ now = 0
    /\ GenInit
    /\ PinIdle
    /\ sessionStorage = [apex_admin_auth |-> null]

ApiNext == responseError \/ navigate

ApiSpec == ApiInit /\ [][ApiNext]_vars

\* the provider before its mount effect, on any storage and at any time
AuthInit ==
    /\ QuizInit
    /\ localStorage \in AuthStorages
    /\ pathname = <<"/">>
    /\ failed = noValue
    /\ rejection = noValue
    /\ user = null
    /\ token = null
    /\ authLoading = TRUE
    /\ mounted = FALSE
    /\ loginPending = FALSE
    /\ now \in Instants
    /\ GenInit
    /\ PinIdle
    /\ sessionStorage = [apex_admin_auth |-> null]

AuthNext ==
    \/ validateSession
    \/ logoutCall
    \/ loginCall
    \/ loginAnswered
    \/ loginFailed
    \/ reload

AuthSpec == AuthInit /\ [][AuthNext]_vars

\* the admin page as mounted, on any sessionStorage
PinInit ==
    /\ QuizInit
    /\ localStorage = [token |-> StoredToken, user_data |-> StoredUserData]
    /\ pathname = <<"/", "a", "d", "m", "i", "n">>
    /\ failed = noValue
    /\ rejection = noValue
    /\ user = ParsedUserData
    /\ token = StoredToken
    /\ authLoading = FALSE
    /\ mounted = TRUE
    /\ loginPending = FALSE
    /\ now = 0
    /\ GenInit
    /\ PinIdle
    /\ sessionStorage \in SessionStorages

PinNext ==
    \/ \E digit \in Digits : handlePinClick(digit)
    \/ handleDelete
    \/ shakeTimeout
    \/ adminFlushPassiveEffects
    \/ adminRender
    \/ \E i \in DOMAIN logins : \E response \in AdminResponses :
            paymentsAnswered(i, response)
    \/ \E i \in DOMAIN logins : fetchRejected(i)
    \/ \E i \in DOMAIN logins : \E gamesRes \in AdminResponses :
            gamesAnswered(i, gamesRes)

PinSpec == PinInit /\ [][PinNext]_vars

(* ------------------------------- claims -------------------------------- *)
\* round-half-up of the exact quotient 100 * c / n, for n >= 1
RoundHalfUp(c, n) == (200 * c + n) \div (2 * n)

\* a step in which setScore(finalScore) was called
Finalizes == Len(finalizers') > Len(finalizers)

\* C1: within one session (from the start until score is next reset) the
\* score is computed and set exactly once, whatever the interleaving of ticks,
\* the time-up effect and manual submits.
C1_ScoreSetOnce == Len(finalizers) <= 1

\* C2: for a question set of size N >= 1 the score set at finalization is the
\* integer round-half-up(100 * correctCount / N), in [0,100], correctCount
\* being the number of questions whose selected answer matches.
C2_ScoreIsRoundHalfUp ==
    [][Finalizes /\ Len(rendered.quizData.questions) >= 1 =>
         /\ score' = Num(RoundHalfUp(correctCountOf(rendered.quizData, rendered.userAnswers),
                                     Len(rendered.quizData.questions)))
         /\ score'.num \in 0..100]_vars

\* C3: at finalization, on the timeout path and on the manual path, the
\* success modal is open if and only if the computed score is >= 50 (50 passes).
C3_ModalIffPassed ==
    [][Finalizes => (showSuccessModal' <=> (score' # NaN /\ score'.num >= 50))]_vars

C3_Witness ==
    /\ score = Num(50) /\ showSuccessModal
    /\ \E fi \in 1..Len(finalizers) : finalizers[fi] = "timeUp"

\* C4: for an empty question set no score value (0, 100 or NaN) is ever
\* stored; scoring signals an error instead.
C4_NoScoreForEmptyQuiz ==
    (quizData # null /\ Len(quizData.questions) = 0) => score = null

\* C5: the remaining time is >= 0 in every reachable state.
C5_TimeLeftNonNegative == timeLeft >= 0

\* C6: an Active session that is not submitted manually is finalized
\* automatically once fair ticks have brought the countdown to zero: isActive
\* becomes false and a score is set.
C6_AutoFinalization == isActive ~> (~isActive /\ score # null /\ timeLeft <= 0)

C6_Witness ==
    /\ ~isActive /\ score # null /\ finalizers = <<"timeUp">>
    /\ quizData # null /\ Len(quizData.questions) >= 1
    /\ timeLeft = 0

\* C7: a tick delivered while the session is not Active leaves timeLeft and
\* every other session variable unchanged.
C7_TickWhenInactiveIsNoOp ==
    [][(~isActive /\ Tick) => UNCHANGED hookVars]_vars

\* C8: after a session was finalized by a manual submit, no later tick and no
\* re-run of the time-up effect such a tick causes stores a score again: the
\* stored score stays as it is.
C8_ScoreKeptAfterManualSubmit ==
    [][(finalizers # <<>> /\ finalizers[1] = "submit"
          /\ (Tick \/ Render \/ FlushPassiveEffects)) =>
         UNCHANGED <<score, finalizers>>]_vars

\* a tick after the manual submit brought the countdown to zero, and the render
\* it caused has scheduled the time-up effect again
C8_Witness ==
    /\ finalizers = <<"submit">>
    /\ rendered.score # null /\ rendered.timeLeft <= 0
    /\ Len(rendered.quizData.questions) >= 1
    /\ pendingEffects = {"timeUp"}

\* C9: a finalize trigger (handleSubmitQuiz or the time-up effect) that runs
\* after the session was finalized (isActive false, score set) leaves score,
\* showSuccessModal and isActive unchanged and does not repeat the confetti.
C9_FinalizeWhenInactiveIsNoOp ==
    [][(~isActive /\ score # null /\ (submitClick \/ FlushPassiveEffects)) =>
         UNCHANGED <<score, showSuccessModal, isActive, confetti>>]_vars

\* C10: once the score is set the answer map stays exactly as it was at
\* finalization until the session is reset (Retake, New Assessment, generate).
C10_AnswersFrozenAfterFinalization ==
    [][(score # null /\ score' # null) => userAnswers' = userAnswers]_vars

\* `core` is what is left of `padded` once the blanks at its two ends are removed
IsStripOf(core, padded) ==
    \E si \in 1..(Len(padded) + 1) : \E sj \in 0..Len(padded) :
        /\ core = SubSeq(padded, si, sj)
        /\ \A sk \in 1..(si - 1) : padded[sk] = " "
        /\ \A sk \in (sj + 1)..Len(padded) : padded[sk] = " "
        /\ core = <<>> \/ (core[1] # " " /\ core[Len(core)] # " ")

\* the two strings are equal, character for character, once the blanks at
\* their ends are removed
SameUpToEnds(sx, sy) ==
    \E si \in 1..(Len(sx) + 1) : \E sj \in 0..Len(sx) :
        IsStripOf(SubSeq(sx, si, sj), sx) /\ IsStripOf(SubSeq(sx, si, sj), sy)

\* C11: the selected answer of a question counts as a match if and only if it
\* equals the question's answer string once leading and trailing whitespace is
\* removed from both; apart from that the comparison is exact and case-sensitive.
C11_MatchIffEqualAfterTrim ==
    [][(Finalizes /\ 1 \in DOMAIN rendered.userAnswers
          /\ rendered.quizData.questions[1].answer # undefined) =>
         score' = IF SameUpToEnds(rendered.userAnswers[1], rendered.quizData.questions[1].answer)
                  THEN Num(100) ELSE Num(0)]_vars

\* a selection that differs from the answer string only by surrounding blanks
\* was scored as a match
C11_Witness ==
    /\ finalizers # <<>> /\ score = Num(100)
    /\ 1 \in DOMAIN userAnswers
    /\ quizData.questions[1].answer # undefined
    /\ userAnswers[1] # quizData.questions[1].answer

\* C12: a question with no entry in the answer map is counted as incorrect,
\* whatever the question's own fields contain: a one-question quiz finalized
\* with nothing selected scores 0.
C12_MissingEntryIsIncorrect ==
    [][(Finalizes /\ 1 \notin DOMAIN rendered.userAnswers) => score' = Num(0)]_vars

\* a step that starts a session: an accepted generation response, or Retake
StartsSession == (\E gn \in 0..MaxQuestions : generateAccepted(gn)) \/ retakeQuiz

\* C13: starting a session, by an accepted generation response or by Retake,
\* makes it Active with a remaining time of exactly 60 times the number of
\* questions, a positive integer.
C13_StartSetsSixtyPerQuestion ==
    [][StartsSession =>
         /\ isActive'
         /\ timeLeft' = 60 * Len(quizData'.questions)
         /\ timeLeft' > 0]_vars

\* C14: the answer map is empty when a session starts, and a
\* handleAnswerSelect call made while isActive is false leaves it unchanged.
C14_AnswersChangeOnlyWhileActive ==
    [][/\ StartsSession => userAnswers' = <<>>
       /\ (~isActive /\ optionClick) => userAnswers' = userAnswers]_vars

\* C15: the timeout path and the manual-submit path are equivalent
\* finalizations: from the same quizData and userAnswers, the time-up effect
\* and handleSubmitQuiz produce the same score, the same isActive = false and
\* the same showSuccessModal.  Each finalization that happens is compared
\* with what the other path computes from the same state.
C15_TimeoutEqualsManualSubmit ==
    [][/\ (FlushPassiveEffects /\ Finalizes) =>
            /\ score' = handleSubmitQuiz(state).score
            /\ ~isActive' /\ ~handleSubmitQuiz(state).isActive
            /\ showSuccessModal' = handleSubmitQuiz(state).showSuccessModal
       /\ (submitClick /\ ~timeUpReturns(rendered)) =>
            /\ score' = timeUpEffect(state).score
            /\ ~isActive' /\ ~timeUpEffect(state).isActive
            /\ showSuccessModal' = timeUpEffect(state).showSuccessModal]_vars

\* the timeout path has finalized a passed session: the modal is open
C15_Witness ==
    /\ finalizers = <<"timeUp">> /\ ~isActive
    /\ showSuccessModal /\ score # null /\ score # NaN

\* C16: scoring is a pure, deterministic function of (quizData, userAnswers):
\* a finalization leaves quizData and userAnswers unchanged, and a second
\* computation from the same pair stores the same score as the first.
C16_ScoringIsPure ==
    [][((submitClick \/ FlushPassiveEffects) /\ Finalizes) =>
         /\ UNCHANGED <<quizData, userAnswers>>
         /\ score # null => score' = score]_vars

\* the score of an answered quiz has been computed twice
C16_Witness ==
    /\ Len(finalizers) = 2 /\ score # null
    /\ quizData # null /\ Len(quizData.questions) >= 1
    /\ userAnswers # <<>>

\* C17: while a session is Active its timeLeft never increases: a delivered
\* tick decrements it by exactly 1, and no other step that keeps the session
\* Active changes it.
C17_TimeLeftDecreasesByOne ==
    [][(isActive /\ isActive') =>
         IF Tick THEN timeLeft' = timeLeft - 1 ELSE timeLeft' = timeLeft]_vars

\* an Active session whose countdown has been ticked below its start value
C17_Witness ==
    /\ isActive /\ score = null /\ quizData # null
    /\ timeLeft > 0 /\ timeLeft < 60 * Len(quizData.questions)
    /\ userAnswers # <<>>

\* the offered options of the one question of the quiz on screen
OfferedOptions ==
    {rendered.quizData.questions[1].options[oi] :
        oi \in 1..Len(rendered.quizData.questions[1].options)}

\* C18 as stated: a question whose correct-answer string is not one of its own
\* offered options is scored as incorrect for every selection the user can
\* make from those options.
C18_AnswerOutsideOptionsIsIncorrect ==
    [][(Finalizes /\ rendered.quizData.questions[1].answer # undefined
          /\ rendered.quizData.questions[1].answer \notin OfferedOptions) =>
         score' = Num(0)]_vars

\* C18, amended: a question whose correct-answer string equals none of its
\* offered options once leading and trailing whitespace is removed from both
\* is scored as incorrect for every selection the user can make from those
\* options.
C18_AnswerMatchingNoOptionIsIncorrect ==
    [][(Finalizes /\ rendered.quizData.questions[1].answer # undefined
          /\ \A oo \in OfferedOptions :
                ~SameUpToEnds(oo, rendered.quizData.questions[1].answer)) =>
         score' = Num(0)]_vars

\* an option was selected for a question whose answer matches none of its
\* options, and the session was finalized with score 0
C18_Witness ==
    /\ finalizers # <<>> /\ score = Num(0)
    /\ 1 \in DOMAIN rendered.userAnswers
    /\ rendered.quizData.questions[1].answer # undefined
    /\ \A oo \in OfferedOptions : ~SameUpToEnds(oo, rendered.quizData.questions[1].answer)

\* C19: while the session is Active, handleAnswerSelect(questionId, option)
\* sets the entry of questionId to option, replacing any earlier selection,
\* and leaves the entries of all other questions as they were.
C19_LastSelectionWins ==
    [][\A oq \in 1..MaxQuestions : \A oo \in 1..Len(Question(oq).options) :
         (isActive /\ selectOption(oq, oo)) =>
            /\ DOMAIN userAnswers' = DOMAIN userAnswers \cup {rendered.quizData.questions[oq].id}
            /\ userAnswers'[rendered.quizData.questions[oq].id]
                  = rendered.quizData.questions[oq].options[oo]
            /\ \A ok \in DOMAIN userAnswers \ {rendered.quizData.questions[oq].id} :
                  userAnswers'[ok] = userAnswers[ok]]_vars

\* both questions of an Active session carry a selection, neither the first
\* option
C19_Witness ==
    /\ isActive /\ score = null /\ quizData # null
    /\ DOMAIN userAnswers = {1, 2}
    /\ userAnswers[1] = <<"B">> /\ userAnswers[2] = <<"B">>

\* the three session states, read off the hook state
NotStarted == ~isActive /\ score = null
Active == isActive /\ score = null
Finalized == ~isActive /\ score # null

\* C20: in every reachable state the session is in exactly one of NotStarted,
\* Active and Finalized: isActive = true and a stored score never hold
\* together, a score being stored only for a session that has left Active.
C20_ExactlyOneSessionState ==
    /\ NotStarted \/ Active \/ Finalized
    /\ ~(isActive /\ score # null)

\* a two-question session finalized by a manual submit before its time ran out
C20_Witness ==
    /\ Finalized /\ finalizers = <<"submit">>
    /\ quizData # null /\ Len(quizData.questions) = 2
    /\ timeLeft > 0 /\ rendered.score # null

\* the detail of the response says the word: as a string it contains it, as a
\* list it has it among its entries
Mentions(detail, word) ==
    \/ IsString(detail) /\ Includes(detail.string, word)
    \/ IsArray(detail) /\ ArrayIncludes(detail.array, String(word))

\* an authentication failure: HTTP 401, or HTTP 403 whose detail mentions
\* 'expired', 'credentials' or 'inactive'; a timeout never is one
AuthFailure(err) ==
    /\ err.code # "ECONNABORTED"
    /\ \/ statusOf(err) = Num(401)
       \/ /\ statusOf(err) = Num(403)
          /\ \E w \in AuthWords : Mentions(detailOf(err), w)

\* C21: the response interceptor removes token and user_data exactly for
\* authentication failures (always on 401, on 403 only when the detail mentions
\* one of the three words, never on a timeout or any other error), and in every
\* case the caller's promise is rejected with the error itself
C21_StorageClearedOnlyOnAuthFailure ==
    [][responseError =>
        /\ rejection' = failed'
        /\ IF AuthFailure(failed')
           THEN localStorage' = [token |-> null, user_data |-> null]
           ELSE localStorage' = localStorage]_vars

\* the subscription_end stored in the text of user_data, if the text parses
\* and has one that is set
StoredSubscriptionEnd(text) ==
    IF "subscription_end" \in DOMAIN parse(text) THEN parse(text).subscription_end
    ELSE null

\* the stored subscription end is a date before the given time
Past(text, time) ==
    \E t \in Instants : StoredSubscriptionEnd(text) = isoOf(t) /\ t < time

\* user_data is stored, parses, and its subscription_end is absent or not past
Restorable(item, time) ==
    /\ item # null
    /\ parse(item.string) # SyntaxError
    /\ ~Past(item.string, time)

Generating == gen # "idle"

\* C23: generateWithRetry ends after at most three requests: a failed attempt
\* with retries left adds one to retryCount and is followed by another
\* attempt, a failure of the third attempt is thrown on and ends the run, and
\* the first success ends the run without a further request
C23_AtMostThreeRequests ==
    /\ [](requests <= 3)
    /\ [][\A err \in GenErrors : attemptFailed(err) =>
            IF requests < 3
            THEN retryCount' = retryCount + 1 /\ gen' = "delaying"
            ELSE gen' = "idle" /\ quizData' = null /\ error' = failureMessage(err)]_vars
    /\ [][(\E data \in ResponseData : attemptSucceeded(data)) =>
            gen' = "idle" /\ requests' = requests]_vars
    /\ \A n \in 1..2 : (gen = "delaying" /\ requests = n) ~> (gen = "awaiting" /\ requests = n + 1)
    /\ Generating ~> ~Generating

\* the third attempt failed and its error was thrown on to handleGenerate
C23_Witness ==
    /\ requests = 3 /\ ~Generating
    /\ quizData = null /\ ~loading
    /\ error = String(<<"Network Error: No response from server. Please check your connection.">>)

\* C24: a run of handleGenerate that passed the loading guard ends, on every
\* path, with loading false, and with retryCount 0 when it made a request
C24_RunEndsNotLoading ==
    [][/\ (\E valid \in BOOLEAN : formSubmit(valid)) /\ ~Generating' => ~loading'
       /\ Generating /\ ~Generating' => ~loading' /\ retryCount' = 0]_vars

\* a run that retried has ended
C24_Witness == requests > 1 /\ ~Generating /\ ~loading /\ retryCount = 0

\* the answer holds a quiz: its questions field is an object whose questions
\* field is a list, or the text of one, with or without a code fence
YieldsQuiz(data) ==
    \E n \in 0..MaxQuestions :
        \/ data = [questions |-> [questions |-> Array(Quiz(n).questions)]]
        \/ data = [questions |-> String(quizText(n))]
        \/ data = [questions |-> String(fenced(quizText(n)))]

ClearsError == truthy(error) /\ ~truthy(error')

\* C28 as stated: a failed attempt sets its error, a later successful attempt
\* starts the session without touching it, and only the start of
\* handleGenerate and the dismiss button ever clear the error
C28_ErrorClearedOnlyByStartOrDismiss ==
    /\ [][\A err \in GenErrors : attemptFailed(err) /\ Generating' =>
            error' = attemptMessage(err) /\ truthy(error')]_vars
    /\ [][(\E data \in ResponseData : attemptSucceeded(data)) /\ quizData' # null =>
            error' = error]_vars
    /\ [][ClearsError => (\E valid \in BOOLEAN : formSubmit(valid)) \/ dismissError]_vars

\* C28 as amended: the choice of a file clears the error too
C28_ErrorKeptBySuccessfulRetry ==
    /\ [][\A err \in GenErrors : attemptFailed(err) /\ Generating' =>
            error' = attemptMessage(err) /\ truthy(error')]_vars
    /\ [][(\E data \in ResponseData : attemptSucceeded(data)) /\ quizData' # null =>
            error' = error]_vars
    /\ [][ClearsError =>
            \/ \E valid \in BOOLEAN : formSubmit(valid)
            \/ dismissError
            \/ \E selectedFile \in Files : handleFileChange(selectedFile)]_vars

\* a session started by a retry, the error of the failed attempt still shown
C28_Witness ==
    /\ isActive /\ quizData # null /\ ~Generating
    /\ requests = 2
    /\ error = String(<<"Network Error">>)

\* C26: in every reachable state isActive is true exactly when a quiz is
\* loaded and no score is set
C26_ActiveIffQuizWithoutScore ==
    isActive <=> (quizData # null /\ score = null)

\* a session in progress with an answer given, and no score yet
C26_Witness ==
    /\ isActive /\ quizData # null /\ score = null
    /\ userAnswers # <<>>
    /\ timeLeft < totalTime(quizData)

\* C27: Retake Quiz on a finalized session leaves score null, the answer map
\* empty, the success modal closed, timeLeft at 60 seconds per question and
\* isActive true, with the same quizData; from then on the answer map the
\* handlers see changes by selections only, and the retaken session is
\* finalized again with the score of that map
C27_RetakeStartsAfresh ==
    /\ [][retakeQuiz =>
            /\ score' = null
            /\ userAnswers' = <<>> /\ rendered'.userAnswers = <<>>
            /\ ~showSuccessModal'
            /\ timeLeft' = 60 * Len(quizData.questions)
            /\ isActive'
            /\ quizData' = quizData]_vars
    /\ [][rendered'.userAnswers # rendered.userAnswers => retakeQuiz \/ optionClick]_vars
    /\ [][Finalizes => score' = finalScore(quizData, rendered.userAnswers)]_vars

\* a session first submitted with every answer right was retaken and ran out
\* of time with no answer given: its score is 0
C27_Witness ==
    /\ quizData # null /\ ~isActive
    /\ finalizers = <<"timeUp">>
    /\ userAnswers = <<>>
    /\ score = Num(0)

\* a step in which the pending [pin] effect runs: each click and each render
\* flushes the passive effects the render before left pending
PinEffectRuns ==
    /\ "pin" \in adminEffects
    /\ \/ \E digit \in Digits : handlePinClick(digit)
       \/ handleDelete
       \/ adminFlushPassiveEffects
       \/ adminRender

SessionAuthorised == sessionStorage.apex_admin_auth = String(<<"1">>)

\* the call passed the check of the PIN, or was the automatic one of a
\* session that sessionStorage authorises
Entitled(login) ==
    \/ login.isAuto /\ SessionAuthorised
    \/ ~login.isAuto /\ login.pin = ADMIN_PIN

\* C29: on the PIN pad, whatever digits and deletes are pressed, the entered
\* PIN never has more than 4 digits; when a 4-digit PIN other than ADMIN_PIN
\* is checked, the PIN is cleared and isAuthenticated stays as it was, false
\* unless sessionStorage authorises the session; isAuthenticated becomes true
\* only at the end of a login that was started by entering ADMIN_PIN or
\* automatically with apex_admin_auth = "1" in sessionStorage; and every
\* login that ends, ends authenticated, whatever the backend answered.
C29_PinPad ==
    /\ [](Len(pin) <= PinLength /\ \A i \in DOMAIN logins : Entitled(logins[i]))
    /\ [][PinEffectRuns /\ Len(adminRendered.pin) = PinLength
                        /\ adminRendered.pin # ADMIN_PIN
            => /\ pin' = <<>>
               /\ isAuthenticated' = isAuthenticated
               /\ (~SessionAuthorised => ~isAuthenticated')]_vars
    /\ [][~isAuthenticated /\ isAuthenticated'
            => /\ Len(logins') < Len(logins)
               /\ SessionAuthorised \/ ADMIN_PIN \in {logins[i].pin : i \in DOMAIN logins}]_vars
    /\ [][Len(logins') < Len(logins) => isAuthenticated']_vars

\* a wrong PIN was rejected (the shake has not ended), then ADMIN_PIN was
\* entered and the login ended authenticated although the backend sent no
\* payments, without any authorisation in sessionStorage
C29_Witness ==
    /\ isAuthenticated
    /\ shake
    /\ ~SessionAuthorised
    /\ payments = Array(<<>>)
    /\ logins = <<>>

====
